---- MODULE Spec2Model ----
(***************************************************************************)
(* The resilient content-acquisition subsystem of scholarmap-agent-server: *)
(* the six fetch strategies and the escalation orchestrator of             *)
(* app/services/scraper.py, the normalizer clean_html_content, and the     *)
(* batch orchestrator of app/routers/ingestion.py.                         *)
(*                                                                         *)
(* Strings are modelled by what the code reads of them: a page is a record *)
(* of its length, the block/challenge marker it carries (and where that    *)
(* marker ends), the length of its visible text and whether the HTML       *)
(* parser raises on it.                                                    *)
(***************************************************************************)
EXTENDS Integers, Sequences, FiniteSets, TLC

\* ------------------------------------------------------------------ constants

MinContentLen == 500
MaxContentLen == 50000
CurlPrefix == 1000
CloudPrefix == 2000
NumLayers == 6
CurlTries == 3
HttpxRetries == 2
SemaphoreCap == 5
MaxBatch == 50
MinBatchContent == 100

\* Length of the suffix "-running" of the marker "challenge-running".
RunningSuffix == 8

BlockCodes == {403, 429, 503, 520, 521, 522, 523, 524}

BrowserBlockCodes == {403, 429, 503}

CurlIndicators == {"blocked"}

block_indicators ==
    {"blocked", "captcha", "challenge", "attention required", "access denied"}

challenge_indicators ==
    {"challenge-running", "cf-browser-verification", "please wait",
     "checking your browser", "ddos-guard", "just a moment",
     "verify you are human"}

\* The ladder, in the order fetch_page_content calls the strategies.
Ladder ==
    <<"curl_cffi", "httpx", "cloudscraper", "playwright_basic",
      "playwright_human", "playwright_challenge">>

Min(a, b) == IF a < b THEN a ELSE b

\* ------------------------------------------------------------------ pages

\* Python's None, as a value of the same shape as a page.
None ==
    [isNone |-> TRUE, len |-> 0, kw |-> "none", kwEnd |-> 0,
     textLen |-> 0, parseErr |-> FALSE]

PageLens == {0, MinContentLen, MinContentLen + 1, MaxContentLen + 1}

\* The markers the pages of the model carry: one read by layers 1 and 3, one
\* by layer 3 alone, one by layer 6 alone, and one by layer 6 that holds an
\* indicator of layer 3.
PageMarkers == {"blocked", "captcha", "just a moment", "challenge-running"}

MarkerEnds == {30, CurlPrefix, CurlPrefix + 1, CloudPrefix, CloudPrefix + 1}

TextLens == {0, MinContentLen - 1, MinContentLen, MaxContentLen + 1}

\* Every page of the model: a marker lies inside the page, the visible text
\* is no longer than the markup it is extracted from, and no text is
\* extracted when the parser raises.
Pages ==
    { [isNone |-> FALSE, len |-> n, kw |-> k, kwEnd |-> e,
       textLen |-> t, parseErr |-> x] :
        n \in PageLens, k \in PageMarkers \cup {"none"}, e \in MarkerEnds \cup {0},
        t \in TextLens, x \in BOOLEAN }

ValidPage(c) ==
    /\ (c.kw = "none") = (c.kwEnd = 0)
    /\ c.kwEnd <= c.len
    /\ c.textLen <= c.len
    /\ c.parseErr => c.textLen = 0

Contents == {c \in Pages : ValidPage(c)}

\* Where the first occurrence of indicator ind ends in content.lower(), 0 when
\* it does not occur ("challenge" also occurs inside "challenge-running").
IndicatorEnd(ind, c) ==
    IF c.kw = ind THEN c.kwEnd
    ELSE IF ind = "challenge" /\ c.kw = "challenge-running"
         THEN c.kwEnd - RunningSuffix
    ELSE 0

\* ind in content.lower()[:n]
InPrefix(ind, c, n) == IndicatorEnd(ind, c) > 0 /\ IndicatorEnd(ind, c) <= n

\* ind in content.lower()
InContent(ind, c) == IndicatorEnd(ind, c) > 0

\* len(content) > 500
LongEnoughInclusive(c) == c.len >= MinContentLen

LongEnough(c) == c.len > MinContentLen

\* ------------------------------------------------------------------ responses

\* 200, a status that is no block code, two block codes every layer that
\* reads the status knows, and two that only layers 1-3 know.
HttpStatuses == {200, 404, 403, 503, 520, 524}

\* page.goto may return no response: status 0.
BrowserStatuses == HttpStatuses \cup {0}

\* A try that raised (transport failure, timeout, browser crash).
Raised == [exc |-> TRUE, status |-> 0, body |-> None]

\* What the model keeps of the response of the latest try.
Seen(r) ==
    [exc |-> r.exc, status |-> r.status, len |-> r.body.len,
     kw |-> r.body.kw, kwEnd |-> r.body.kwEnd]

HttpResponses ==
    {Raised} \cup
    {[exc |-> FALSE, status |-> s, body |-> c] : s \in HttpStatuses, c \in Contents}

BrowserResponses ==
    {Raised} \cup
    {[exc |-> FALSE, status |-> s, body |-> c] : s \in BrowserStatuses, c \in Contents}

\* ------------------------------------------------------------------ strategies

\* One iteration of the loop of fetch_with_curl_cffi returns the content.
CurlAccepts(r) ==
    /\ ~r.exc
    /\ r.status \notin BlockCodes
    /\ r.status = 200
    /\ LongEnough(r.body)
    /\ \A ind \in CurlIndicators : ~InPrefix(ind, r.body, CurlPrefix)

\* One iteration of the loop of fetch_with_httpx returns the content.
HttpxAcceptsUnblocked(r) ==
    /\ ~r.exc
    /\ r.status \notin BlockCodes
    /\ LongEnough(r.body)

HttpxAccepts(r) ==
    /\ ~r.exc
    /\ r.status \notin BlockCodes
    /\ r.status = 200
    /\ LongEnough(r.body)

\* fetch_with_cloudscraper returns the content.
CloudscraperAcceptsShortPrefix(r) ==
    /\ ~r.exc
    /\ r.status \notin BlockCodes
    /\ r.status = 200
    /\ LongEnough(r.body)
    /\ \A ind \in block_indicators : ~InPrefix(ind, r.body, CurlPrefix)

CloudscraperAccepts(r) ==
    /\ ~r.exc
    /\ r.status \notin BlockCodes
    /\ r.status = 200
    /\ LongEnough(r.body)
    /\ \A ind \in block_indicators : ~InPrefix(ind, r.body, CloudPrefix)

\* fetch_with_playwright_basic returns the content.
PlaywrightBasicAccepts(r) ==
    /\ ~r.exc
    /\ ~(r.status # 0 /\ r.status \in BrowserBlockCodes)
    /\ LongEnough(r.body)

\* fetch_with_playwright_human returns the content.
PlaywrightHumanAccepts(r) ==
    /\ ~r.exc
    /\ ~(r.status # 0 /\ r.status \in BrowserBlockCodes)
    /\ LongEnough(r.body)

\* The first snapshot of fetch_with_playwright_challenge shows a challenge.
ChallengeDetected(c) == \E ind \in challenge_indicators : InContent(ind, c)

\* fetch_with_playwright_challenge returns the final snapshot; the status of
\* the navigation is not read.
ChallengeAcceptsLong(r) == ~r.exc /\ LongEnough(r.body)

PlaywrightChallengeAccepts(r) ==
    /\ ~r.exc
    /\ LongEnough(r.body)
    /\ ~ChallengeDetected(r.body)

\* Tries one invocation of strategy k makes at most.
TriesHttpxMore(k) == IF k = 1 THEN CurlTries ELSE IF k = 2 THEN HttpxRetries + 1 ELSE 1

Tries(k) == IF k = 1 THEN CurlTries ELSE IF k = 2 THEN HttpxRetries ELSE 1

\* ------------------------------------------------------------------ normalizer

\* content[:50000], as a length
TruncateNone(n) == n

Truncate(n) == Min(n, MaxContentLen)

\* clean_html_content: the visible text when it has at least 500 characters,
\* else the raw markup, and the raw markup when parsing raises.
CleanTextOnly(c) == [path |-> "text", len |-> Truncate(c.textLen)]

CleanAbove500(c) ==
    IF c.parseErr
    THEN [path |-> "except", len |-> Truncate(c.len)]
    ELSE IF c.textLen <= MinContentLen
         THEN [path |-> "raw", len |-> Truncate(c.len)]
         ELSE [path |-> "text", len |-> Truncate(c.textLen)]

\* `return content[:50000]`, as a length
RawFallbackShort(c) == Min(c.len, MinContentLen)

RawFallback(c) == Truncate(c.len)

clean_html_content(c) ==
    IF c.parseErr
    THEN [path |-> "except", len |-> RawFallback(c)]
    ELSE IF c.textLen < MinContentLen
         THEN [path |-> "raw", len |-> RawFallback(c)]
         ELSE [path |-> "text", len |-> Truncate(c.textLen)]

NoOutput == [path |-> "none", len |-> 0]

\* ------------------------------------------------------------------ orchestrator

TargetUrl == "https://a.org/scholarship"

NoError == [prefix |-> "", url |-> "", suffix |-> ""]

\* Exception(f"Failed to fetch content from {url} - All 6 layers exhausted")
ExhaustedError(u) ==
    [prefix |-> "Failed to fetch content from", url |-> u,
     suffix |-> "All 6 layers exhausted"]

\* Python's truth value of `content` (str | None).
Truthy(v) == ~v.isNone /\ v.len > 0

VARIABLES
    pc,         \* Pending | Attempting | Succeeded | Exhausted | Raised | Cleaned
    url,        \* the argument of fetch_page_content
    layer,      \* the strategy being run, 1..6 (0 before the call)
    attempt,    \* tries the running strategy has made
    trace,      \* the strategies invoked, in order
    returned,   \* what each invoked strategy returned: "absent" | "content"
    last,       \* the response of the latest try
    content,    \* the orchestrator's local `content`
    waited,     \* strategy 6 took its additional wait
    snapshot,   \* strategy 6: the first snapshot, taken after the fixed wait
    out,        \* the result of clean_html_content
    error,      \* the exception fetch_page_content raised
    normalized, \* the calls of clean_html_content made so far
    browser     \* per browser strategy: its browser instance, none | open | closed

VARIABLES
    bpc,            \* idle | request | running | responded | rejected | failed
    authorization,  \* the Authorization header: absent | wrong | valid
    requestUrls,    \* request.urls
    urls,           \* the stripped, non-blank URLs
    sem,            \* the value of the semaphore
    tpc,            \* per URL: pending | fetching | done
    stage,          \* per URL: where its pipeline ended
    items,          \* per URL: its BatchItemResult
    response,       \* the BatchIngestResponse
    httpStatus,     \* the status the request ended with (0: not ended)
    others,         \* where the ladders of the other URLs in flight stand
    body,           \* the request body: valid | invalid
    calls,          \* per URL: the collaborators its pipeline has called
    completed       \* the order in which the per-URL tasks completed

\* The profile pools, module-level lists of scraper.py.
FALLBACK_USER_AGENTS ==
    <<"Chrome/122 Windows", "Chrome/122 Macintosh", "Firefox/123 Windows",
      "Safari/17.3 Macintosh", "Edg/122 Windows", "Chrome/122 Linux">>

VIEWPORTS ==
    <<[width |-> 1920, height |-> 1080], [width |-> 1366, height |-> 768],
      [width |-> 1536, height |-> 864], [width |-> 1440, height |-> 900],
      [width |-> 1280, height |-> 720], [width |-> 2560, height |-> 1440]>>

CHROME_VERSIONS ==
    <<"chrome110", "chrome116", "chrome119", "chrome120", "chrome123", "chrome124",
      "chrome131">>

VARIABLES
    pools,        \* the lists CHROME_VERSIONS, VIEWPORTS and FALLBACK_USER_AGENTS
    profiles,     \* strategy 1: the profiles sampled for its running invocation
    impersonated, \* strategy 1: the profiles the tries of that invocation used
    tries         \* per strategy: the tries its invocation has made

rvars == <<pools, profiles, impersonated, tries>>

ProfilePools ==
    [CHROME_VERSIONS |-> CHROME_VERSIONS, VIEWPORTS |-> VIEWPORTS,
     FALLBACK_USER_AGENTS |-> FALLBACK_USER_AGENTS]

Range(s) == {s[i] : i \in DOMAIN s}

\* The population after random.sample or random.choice picked from it: both
\* read the list and build their result apart from it.
PopulationPopped(population, picked) ==
    SelectSeq(population, LAMBDA x : x \notin Range(picked))

PopulationAfter(population, picked) == population

\* random.sample(population, k): the entries at k distinct positions, in
\* any order, with the population as the call leaves it.
SampleWithReplacement(population, k) ==
    {[picked |-> [i \in 1..k |-> population[f[i]]],
      population |-> PopulationAfter(population, [i \in 1..k |-> population[f[i]]])] :
        f \in [1..k -> DOMAIN population]}

random_sample(population, k) ==
    {[picked |-> [i \in 1..k |-> population[f[i]]],
      population |-> PopulationAfter(population, [i \in 1..k |-> population[f[i]]])] :
        f \in {g \in [1..k -> DOMAIN population] :
                  \A i, j \in 1..k : i # j => g[i] # g[j]}}

\* random.choice(population)
random_choice(population) ==
    {[picked |-> population[i],
      population |-> PopulationAfter(population, <<population[i]>>)] :
        i \in DOMAIN population}

\* The pools after get_random_user_agent(): it returns ua.random, or a choice
\* from the fallback list when the generator is missing or fails.
get_random_user_agent(p) ==
    {p} \cup {[p EXCEPT !.FALLBACK_USER_AGENTS = c.population] :
                 c \in random_choice(p.FALLBACK_USER_AGENTS)}

\* The pools after `viewport = random.choice(VIEWPORTS)` and
\* `user_agent = get_random_user_agent()` of a browser strategy.
NewContextProfile(p) ==
    UNION {get_random_user_agent([p EXCEPT !.VIEWPORTS = c.population]) :
              c \in random_choice(p.VIEWPORTS)}

\* The pools after the random.sample that opens strategy 1.
SampleProfiles(p) ==
    random_sample(p.CHROME_VERSIONS, Min(CurlTries, Len(p.CHROME_VERSIONS)))

svars ==
    <<pc, url, layer, attempt, trace, returned, last, content, waited, snapshot, out, error,
      normalized, browser>>

bvars ==
    <<bpc, authorization, requestUrls, urls, sem, tpc, stage, items, response,
      httpStatus, others, body, calls, completed>>

\* The strategies that launch a headless browser.
BrowserLayers == {4, 5, 6}

InitScraperIdle ==
    /\ pc = "Pending"
    /\ url = TargetUrl
    /\ layer = 0
    /\ attempt = 0
    /\ trace = <<>>
    /\ returned = <<>>
    /\ last = Seen(Raised)
    /\ content = None
    /\ waited = FALSE
    /\ snapshot = None
    /\ out = NoOutput
    /\ error = NoError
    /\ normalized = 0
    /\ browser = [k \in BrowserLayers |-> "none"]
    /\ pools = ProfilePools
    /\ profiles = <<>>
    /\ impersonated = <<>>
    /\ tries = [k \in 1..NumLayers |-> 0]

vars == <<svars, bvars, rvars>>

\* `await fetch_with_...(url)`: strategy k is started, and fetch_page_content
\* waits for what it returns.
InvokeTwo(t, k) == Append(Append(t, Ladder[k]), Ladder[Min(k + 1, NumLayers)])

Invoke(t, k) == Append(t, Ladder[k])

\* fetch_page_content is called: it runs up to the first await of layer 1,
\* through the random.sample of the profiles; samples: the samples drawn.
FetchCallWith(samples) ==
    /\ pc = "Pending"
    /\ pc' = "Attempting"
    /\ layer' = 1
    /\ trace' = Invoke(<<>>, 1)
    /\ \E s \in SampleProfiles(pools) :
          /\ s.picked \in samples
          /\ profiles' = s.picked
          /\ pools' = [pools EXCEPT !.CHROME_VERSIONS = s.population]
    /\ impersonated' = <<>>
    /\ UNCHANGED tries
    /\ UNCHANGED <<url, attempt, returned, last, content, waited, snapshot, out, error, normalized,
                   browser>>
    /\ UNCHANGED bvars

\* The samples the calls of the larger specifications draw.
SomeSamples ==
    {<<CHROME_VERSIONS[1], CHROME_VERSIONS[2], CHROME_VERSIONS[3]>>,
     <<CHROME_VERSIONS[7], CHROME_VERSIONS[4], CHROME_VERSIONS[1]>>}

FetchCall == FetchCallWith(SomeSamples)

\* The layer fetch_page_content calls after layer k returned nothing.
NextLayerSame(k) == k

NextLayer(k) == k + 1

\* The layer after which fetch_page_content raises.
LastLayerEarly == NumLayers - 1

LastLayer == NumLayers

\* `if content:` of fetch_page_content
IfContentAlways(v) == TRUE

IfContentNever(v) == FALSE

IfContent(v) == Truthy(v)

\* The running strategy returns v to fetch_page_content, which returns the
\* cleaned content, calls the next strategy or raises.
StrategyReturns(v) ==
    /\ returned' = Append(returned, IF v.isNone THEN "absent" ELSE "content")
    /\ content' = v
    /\ attempt' = 0
    /\ IF IfContent(v)
       THEN /\ pc' = "Succeeded"
            /\ out' = clean_html_content(v)
            /\ normalized' = normalized + 1
            /\ UNCHANGED <<layer, trace, error>>
       ELSE IF layer < LastLayer
       THEN /\ layer' = NextLayer(layer)
            /\ trace' = Invoke(trace, NextLayer(layer))
            /\ UNCHANGED <<pc, out, error, normalized>>
       ELSE /\ pc' = "Exhausted"
            /\ error' = ExhaustedError(url)
            /\ UNCHANGED <<layer, trace, out, normalized>>

\* The exception a strategy would let through to fetch_page_content.
StrategyError(k) == [prefix |-> Ladder[k], url |-> "", suffix |-> "raised"]

\* `except Exception` of a strategy catches the exception of try r: every
\* failure of a request or of the browser is an Exception.
ExceptNothing(r) == FALSE

ExceptException(r) == r.exc

\* One try of the running strategy saw response r; ok: the try returns content.
TryStep(r, ok) ==
    /\ last' = Seen(r)
    /\ tries' = [tries EXCEPT ![layer] = @ + 1]
    /\ UNCHANGED url
    /\ IF r.exc /\ ~ExceptException(r)
       THEN /\ pc' = "Raised"
            /\ error' = StrategyError(layer)
            /\ UNCHANGED <<layer, attempt, trace, returned, content, out, normalized>>
       ELSE IF ok
       THEN StrategyReturns(r.body)
       ELSE IF attempt + 1 < Tries(layer)
       THEN /\ attempt' = attempt + 1
            /\ UNCHANGED <<pc, layer, trace, returned, content, out, error, normalized>>
       ELSE StrategyReturns(None)

\* await browser.close()
browser_close(b) == "closed"

\* Leaving `async with async_playwright()`: the Playwright driver stops, which
\* ends every browser it launched.
PlaywrightExitLeaks(b) == b

PlaywrightExit(b) == IF b = "open" THEN "closed" ELSE b

\* The browser of a browser strategy when the strategy returns: the launch
\* raised, a later await raised before browser.close() was reached, or
\* browser.close() ran (on a block status, or after the last page.content()).
BrowserAtReturn(launched, r) ==
    IF ~launched THEN PlaywrightExit("none")
    ELSE IF r.exc THEN PlaywrightExit("open")
    ELSE PlaywrightExit(browser_close("open"))

\* Each strategy, run against one of the responses rs the network or the
\* browser may give.
fetch_with_curl_cffi_on(rs) ==
    /\ pc = "Attempting" /\ layer = 1
    /\ \E r \in rs \cap HttpResponses : TryStep(r, CurlAccepts(r))
    /\ IF pc' = "Attempting" /\ layer' = 1
       THEN /\ impersonated' = Append(impersonated, profiles[attempt + 1])
            /\ UNCHANGED profiles
       ELSE /\ impersonated' = <<>>
            /\ profiles' = <<>>
    /\ UNCHANGED <<waited, snapshot, browser, bvars, pools>>

fetch_with_httpx_on(rs) ==
    /\ pc = "Attempting" /\ layer = 2
    /\ pools' \in get_random_user_agent(pools)
    /\ \E r \in rs \cap HttpResponses : TryStep(r, HttpxAccepts(r))
    /\ UNCHANGED <<waited, snapshot, browser, bvars, profiles, impersonated>>

fetch_with_cloudscraper_on(rs) ==
    /\ pc = "Attempting" /\ layer = 3
    /\ \E r \in rs \cap HttpResponses : TryStep(r, CloudscraperAccepts(r))
    /\ UNCHANGED <<waited, snapshot, browser, bvars, pools, profiles, impersonated>>

fetch_with_playwright_basic_on(rs) ==
    /\ pc = "Attempting" /\ layer = 4
    /\ pools' \in NewContextProfile(pools)
    /\ \E r \in rs, launched \in BOOLEAN :
          /\ ~launched => r.exc
          /\ browser' = [browser EXCEPT ![4] = BrowserAtReturn(launched, r)]
          /\ TryStep(r, PlaywrightBasicAccepts(r))
    /\ UNCHANGED <<waited, snapshot, bvars, profiles, impersonated>>

fetch_with_playwright_human_on(rs) ==
    /\ pc = "Attempting" /\ layer = 5
    /\ pools' \in NewContextProfile(pools)
    /\ \E r \in rs, launched \in BOOLEAN :
          /\ ~launched => r.exc
          /\ browser' = [browser EXCEPT ![5] = BrowserAtReturn(launched, r)]
          /\ TryStep(r, PlaywrightHumanAccepts(r))
    /\ UNCHANGED <<waited, snapshot, bvars, profiles, impersonated>>

\* Strategy 6 sleeps 8 more seconds and waits for the network to idle: the
\* first snapshot was taken and holds a challenge indicator.
AdditionalWait(first) == ~first.isNone /\ ChallengeDetected(first)

\* The first snapshots strategy 6 may see after its fixed wait; it sees none
\* when the launch or the navigation raised.
FirstSnapshots ==
    {c \in Contents : c.len = MinContentLen + 1 /\ c.textLen = 0 /\ ~c.parseErr
                      /\ c.kwEnd \in {0, 30}
                      /\ c.kw \in {"none", "just a moment"}}

fetch_with_playwright_challenge_on(rs) ==
    /\ pc = "Attempting" /\ layer = 6
    /\ pools' \in NewContextProfile(pools)
    /\ \E first \in FirstSnapshots \cup {None}, r \in rs, launched \in BOOLEAN :
          /\ ~launched => first = None
          /\ first = None => r.exc
          /\ snapshot' = first
          /\ waited' = AdditionalWait(first)
          /\ browser' = [browser EXCEPT ![6] = BrowserAtReturn(launched, r)]
          /\ TryStep(r, PlaywrightChallengeAccepts(r))
    /\ UNCHANGED <<bvars, profiles, impersonated>>

fetch_with_curl_cffi == fetch_with_curl_cffi_on(HttpResponses)

fetch_with_httpx == fetch_with_httpx_on(HttpResponses)

fetch_with_cloudscraper == fetch_with_cloudscraper_on(HttpResponses)

fetch_with_playwright_basic == fetch_with_playwright_basic_on(BrowserResponses)

fetch_with_playwright_human == fetch_with_playwright_human_on(BrowserResponses)

fetch_with_playwright_challenge == fetch_with_playwright_challenge_on(BrowserResponses)

\* clean_html_content is called on its own.
CleanCall ==
    /\ pc = "Pending"
    /\ \E c \in Contents :
          /\ content' = c
          /\ out' = clean_html_content(c)
    /\ normalized' = normalized + 1
    /\ pc' = "Cleaned"
    /\ UNCHANGED <<url, layer, attempt, trace, returned, last, waited, snapshot, error, browser>>
    /\ UNCHANGED <<bvars, rvars>>

\* A string of n characters without marker, whose visible text has t
\* characters.
PlainPage(n, t, x) ==
    [isNone |-> FALSE, len |-> n, kw |-> "none", kwEnd |-> 0,
     textLen |-> t, parseErr |-> x]

\* What the parser may make of the string clean_html_content returned for
\* page c with result o. A string returned whole is page c again. The
\* extracted text, and markup that was cut, are parsed anew: the visible
\* text found in them has any length up to theirs, and only what was cut from
\* markup that did not parse may fail to parse.
Reparsed(c, o) ==
    IF o.path # "text" /\ c.len <= MaxContentLen
    THEN {c}
    ELSE {PlainPage(o.len, t, FALSE) :
            t \in {n \in {0, MinContentLen - 1, MinContentLen, o.len} : n <= o.len}}
         \cup (IF o.path = "except" THEN {PlainPage(o.len, 0, TRUE)} ELSE {})

\* clean_html_content is called on the string it returned.
CleanAgain ==
    /\ pc = "Cleaned"
    /\ \E p \in Reparsed(content, out) :
          /\ content' = p
          /\ out' = clean_html_content(p)
    /\ normalized' = normalized + 1
    /\ pc' = "Recleaned"
    /\ UNCHANGED <<url, layer, attempt, trace, returned, last, waited, snapshot, error, browser>>
    /\ UNCHANGED <<bvars, rvars>>

\* ------------------------------------------------------------------ batch

\* The largest request of the batch specification.
MaxUrls == 6

\* A URL string: its scheme ("" for a string of white space only), what tells
\* it from the other URLs, and whether white space surrounds it.
Url(scheme, id, padded) == [scheme |-> scheme, id |-> id, padded |-> padded]

\* url.strip()
Strip(u) == [u EXCEPT !.padded = FALSE]

\* `if url.strip()`: the stripped string is not empty
KeepBlank(u) == TRUE

NonBlank(u) == u.scheme # ""

\* url.startswith(('http://', 'https://'))
StartsWithAnything(u) == TRUE

StartsWithHttp(u) == ~u.padded /\ u.scheme \in {"http", "https"}

RECURSIVE StripNonBlank(_)
\* [url.strip() for url in request.urls if url.strip()]
StripNonBlank(us) ==
    IF us = <<>> THEN <<>>
    ELSE IF NonBlank(Head(us))
         THEN <<Strip(Head(us))>> \o StripNonBlank(Tail(us))
         ELSE StripNonBlank(Tail(us))

\* verify_token: 0 when the header is "Bearer <AGENT_SECRET>", else 401.
verify_token(a) == IF a = "valid" THEN 0 ELSE 401

\* The strategy k accepts response r.
Accepts(k, r) ==
    CASE k = 1 -> r \in HttpResponses /\ CurlAccepts(r)
      [] k = 2 -> r \in HttpResponses /\ HttpxAccepts(r)
      [] k = 3 -> r \in HttpResponses /\ CloudscraperAccepts(r)
      [] k = 4 -> PlaywrightBasicAccepts(r)
      [] k = 5 -> PlaywrightHumanAccepts(r)
      [] OTHER -> PlaywrightChallengeAccepts(r)

\* What fetch_page_content can return: the cleaned content of a response that
\* some strategy accepts.
FetchOutputs ==
    {clean_html_content(r.body) :
        r \in {x \in BrowserResponses : \E k \in 1..NumLayers : Accepts(k, x)}}

\* What process_single_url sees of fetch_page_content: it raised, or returned
\* content that `not content or len(content) < 100` rejects, or content.
FetchKinds ==
    {"raised"} \cup
    {IF o.len = 0 \/ o.len < MinBatchContent THEN "short" ELSE "content" :
        o \in FetchOutputs}

\* extract_with_gemini returns a dict, raises, or returns a dict whose
\* confidence_score does not compare with 0.5.
ExtractOutcomes == {"ok", "raises", "badtypes"}

\* The inserts of process_single_url all succeed, or one raises.
DbOutcomes == {"ok", "raises"}

NoCause == [prefix |-> "", url |-> NoError.url, suffix |-> ""]

NoItem ==
    [url |-> Url("", 0, FALSE), success |-> FALSE, program_id |-> 0,
     error |-> [kind |-> "unset", cause |-> NoCause]]

\* BatchItemResult(url=url, success=False, error=...)
FailureSilent(u, kind, cause) ==
    [url |-> u, success |-> FALSE, program_id |-> 0,
     error |-> [kind |-> "none", cause |-> cause]]

Failure(u, kind, cause) ==
    [url |-> u, success |-> FALSE, program_id |-> 0,
     error |-> [kind |-> kind, cause |-> cause]]

\* BatchItemResult(url=url, success=True, program_id=program_id, ...)
Success(u, id) ==
    [url |-> u, success |-> TRUE, program_id |-> id,
     error |-> [kind |-> "none", cause |-> NoCause]]

\* The id the database gives the program row of the i-th URL.
NewId(i) == i

\* The outer `except Exception` of process_single_url.
PropagateUnexpected(u) == [raised |-> TRUE, stage |-> "unexpected", item |-> NoItem]

CatchUnexpected(u) ==
    [raised |-> FALSE, stage |-> "unexpected",
     item |-> Failure(u, "Unexpected error", NoCause)]

Ended(st, it) == [raised |-> FALSE, stage |-> st, item |-> it]

\* process_single_url for the i-th URL u, given what fetch_page_content (f),
\* extract_with_gemini (e) and the database (d) do.
process_single_url(u, i, f, e, d) ==
    IF ~StartsWithHttp(u)
    THEN Ended("invalid", Failure(u, "Invalid URL format", NoCause))
    ELSE IF f = "raised"
    THEN Ended("exhausted", Failure(u, "Scraping failed", ExhaustedError(u)))
    ELSE IF f = "short"
    THEN Ended("short",
               Failure(u, "Failed to fetch page content or page too short", NoCause))
    ELSE IF e = "raises"
    THEN Ended("extract_raises", Failure(u, "AI extraction failed", NoCause))
    ELSE IF e = "badtypes"
    THEN CatchUnexpected(u)
    ELSE IF d = "raises"
    THEN Ended("db_raises", Failure(u, "Database error", NoCause))
    ELSE Ended("ok", Success(u, NewId(i)))

NoResponse == [total |-> 0, successful |-> 0, failed |-> 0, results |-> <<>>]

\* sum(1 for r in results if r.success)
CountAll(rs) == Len(rs)

CountSuccessful(rs) == Cardinality({i \in DOMAIN rs : rs[i].success})

\* BatchIngestResponse(total=len(results), successful=..., failed=..., results=results)
BatchIngestResponse(rs) ==
    [total |-> Len(rs), successful |-> CountSuccessful(rs),
     failed |-> Len(rs) - CountSuccessful(rs), results |-> rs]

\* Leaving `async with semaphore` gives the slot back, however the body ended.
ReleaseLost(s) == s

Release(s) == s + 1

\* The semaphore lets a task in.
CanAcquireAlone(s) == s = SemaphoreCap

AlwaysAcquire(s) == TRUE

CanAcquire(s) == s > 0

\* The other ladders the concurrent specification runs beside the call.
MaxOthers == 1

\* The completion order of a request no specification follows.
NotObserved == <<0>>

\* The collaborators a per-URL pipeline has called: fetch_page_content,
\* extract_with_gemini, and the database (none | failed | done).
NoCalls == [fetch |-> FALSE, extract |-> FALSE, storage |-> "none"]

FetchCalled == [fetch |-> TRUE, extract |-> FALSE, storage |-> "none"]

\* The collaborators process_single_url and ingest call for URL u, given
\* what the fetch (f), the extraction (e) and the database (d) do.
CollaboratorsEager(u, f, e, d) ==
    [fetch |-> StartsWithHttp(u),
     extract |-> StartsWithHttp(u),
     storage |-> IF StartsWithHttp(u) /\ e = "ok"
                 THEN (IF d = "ok" THEN "done" ELSE "failed")
                 ELSE "none"]

Collaborators(u, f, e, d) ==
    [fetch |-> StartsWithHttp(u),
     extract |-> StartsWithHttp(u) /\ f = "content",
     storage |-> IF StartsWithHttp(u) /\ f = "content" /\ e = "ok"
                 THEN (IF d = "ok" THEN "done" ELSE "failed")
                 ELSE "none"]

\* asyncio.gather(*tasks): the results in the order of the tasks, not in the
\* order of their completion.
gather_as_completed(rs, order) ==
    IF order = NotObserved THEN rs ELSE [k \in DOMAIN order |-> rs[order[k]]]

gather(rs, order) == rs

\* The order of completion after task i completed.
Completes(order, i) == IF order = NotObserved THEN order ELSE Append(order, i)

\* The ladder of another URL: where it stands.
NotCalled == [pc |-> "Pending", layer |-> 0, attempt |-> 0]

NoOthers == [j \in 1..MaxOthers |-> NotCalled]

InitBatchIdle ==
    /\ bpc = "idle"
    /\ authorization = "absent"
    /\ requestUrls = <<>>
    /\ urls = <<>>
    /\ sem = 0
    /\ tpc = <<>>
    /\ stage = <<>>
    /\ items = <<>>
    /\ response = NoResponse
    /\ httpStatus = 0
    /\ others = NoOthers
    /\ body = "valid"
    /\ calls = <<>>
    /\ completed = NotObserved

\* The requests of the batch specification: up to MaxUrls well-formed URLs.
BatchRequests ==
    {[i \in 1..n |-> Url("https", i, FALSE)] : n \in 0..MaxUrls}

\* The largest request of the mixed batch specification.
MaxMixedUrls == 3

\* The strings the i-th entry of a mixed request may be: a URL, a URL inside
\* white space, a URL of another scheme, white space only.
UrlVariants(i) ==
    {Url("https", i, FALSE), Url("http", i, TRUE), Url("ftp", i, FALSE),
     Url("", i, TRUE)}

\* The requests of the mixed batch specification.
MixedRequests ==
    UNION {{f \in [1..n -> UNION {UrlVariants(i) : i \in 1..n}] :
                \A i \in 1..n : f[i] \in UrlVariants(i)} : n \in 0..MaxMixedUrls}

\* A request arrives at /batch-ingest: its Authorization header, its body
\* and the URL list of a valid body.
InitRequestOf(requests, bodies) ==
    /\ InitScraperIdle
    /\ bpc = "request"
    /\ authorization \in {"absent", "wrong", "valid"}
    /\ body \in bodies
    /\ requestUrls \in IF body = "valid" THEN requests ELSE {<<>>}
    /\ calls = <<>>
    /\ completed \in {NotObserved, <<>>}
    /\ urls = <<>>
    /\ sem = 0
    /\ tpc = <<>>
    /\ stage = <<>>
    /\ items = <<>>
    /\ response = NoResponse
    /\ httpStatus = 0
    /\ others = NoOthers

\* A request with a body that validates as BatchIngestRequest.
InitRequest(requests) ==
    InitRequestOf(requests, {"valid"}) /\ completed = NotObserved

InitBatch == InitRequest(BatchRequests)

InitBatchMixed == InitRequest(MixedRequests)

\* `len(urls) > 50`
NoLimit(us) == FALSE

TooMany(us) == Len(us) > MaxBatch

\* The parameter `request: BatchIngestRequest` of batch_ingest: the framework
\* validates the body before it calls the handler, and answers a body that
\* does not validate with 422 without calling it.
UnprocessableEntity == 422

BodyRejected(b) == b = "invalid"

\* batch_ingest up to its await of asyncio.gather: the body, the token, the
\* URL list, the semaphore and one task per URL.
batch_ingest ==
    /\ bpc = "request"
    /\ LET us == StripNonBlank(requestUrls)
           denied == verify_token(authorization)
       IN IF BodyRejected(body)
          THEN /\ bpc' = "rejected"
               /\ httpStatus' = UnprocessableEntity
               /\ UNCHANGED <<urls, sem, tpc, stage, items, calls>>
          ELSE IF denied # 0
          THEN /\ bpc' = "rejected"
               /\ httpStatus' = denied
               /\ UNCHANGED <<urls, sem, tpc, stage, items, calls>>
          ELSE IF us = <<>> \/ TooMany(us)
          THEN /\ bpc' = "rejected"
               /\ httpStatus' = 400
               /\ urls' = us
               /\ UNCHANGED <<sem, tpc, stage, items, calls>>
          ELSE /\ bpc' = "running"
               /\ urls' = us
               /\ sem' = SemaphoreCap
               /\ tpc' = [i \in DOMAIN us |-> "pending"]
               /\ stage' = [i \in DOMAIN us |-> "none"]
               /\ items' = [i \in DOMAIN us |-> NoItem]
               /\ calls' = [i \in DOMAIN us |-> NoCalls]
               /\ UNCHANGED httpStatus
    /\ UNCHANGED <<authorization, body, requestUrls, response, others, completed>>
    /\ UNCHANGED svars
    /\ UNCHANGED rvars

\* process_with_semaphore(urls[i]) enters the semaphore and runs
\* process_single_url to the first await of fetch_page_content; a URL of a
\* wrong format gets its result, and leaves the semaphore, at once.
process_with_semaphore(i) ==
    /\ bpc \in {"running", "failed"}
    /\ tpc[i] = "pending"
    /\ CanAcquire(sem)
    /\ IF StartsWithHttp(urls[i])
       THEN /\ sem' = sem - 1
            /\ tpc' = [tpc EXCEPT ![i] = "fetching"]
            /\ calls' = [calls EXCEPT ![i] = FetchCalled]
            /\ UNCHANGED <<stage, items, completed>>
       ELSE LET res == process_single_url(urls[i], i, "raised", "ok", "ok")
            IN /\ tpc' = [tpc EXCEPT ![i] = "done"]
               /\ stage' = [stage EXCEPT ![i] = res.stage]
               /\ items' = [items EXCEPT ![i] = res.item]
               /\ calls' = [calls EXCEPT ![i] =
                               Collaborators(urls[i], "raised", "ok", "ok")]
               /\ completed' = Completes(completed, i)
               /\ UNCHANGED sem
    /\ UNCHANGED <<bpc, authorization, body, requestUrls, urls, response, httpStatus, others>>
    /\ UNCHANGED svars
    /\ UNCHANGED rvars

\* fetch_page_content ends for the i-th URL; process_single_url runs to its
\* end without another await, and the task leaves the semaphore. An exception
\* that leaves process_single_url ends batch_ingest through asyncio.gather.
process_single_url_ends(i) ==
    /\ bpc \in {"running", "failed"}
    /\ tpc[i] = "fetching"
    /\ \E f \in FetchKinds, e \in ExtractOutcomes, d \in DbOutcomes :
          /\ (f # "content") => (e = "ok" /\ d = "ok")
          /\ (e # "ok") => (d = "ok")
          /\ LET res == process_single_url(urls[i], i, f, e, d)
             IN /\ stage' = [stage EXCEPT ![i] = res.stage]
                /\ items' = [items EXCEPT ![i] = res.item]
                /\ calls' = [calls EXCEPT ![i] = Collaborators(urls[i], f, e, d)]
                /\ IF res.raised /\ bpc = "running"
                   THEN bpc' = "failed" /\ httpStatus' = 500
                   ELSE UNCHANGED <<bpc, httpStatus>>
    /\ tpc' = [tpc EXCEPT ![i] = "done"]
    /\ completed' = Completes(completed, i)
    /\ sem' = Release(sem)
    /\ UNCHANGED <<authorization, body, requestUrls, urls, response, others>>
    /\ UNCHANGED svars
    /\ UNCHANGED rvars

\* asyncio.gather returns the results in the order of urls, and batch_ingest
\* returns its response.
batch_ingest_returns ==
    /\ bpc = "running"
    /\ \A i \in DOMAIN tpc : tpc[i] = "done"
    /\ response' = BatchIngestResponse(gather(items, completed))
    /\ bpc' = "responded"
    /\ httpStatus' = 200
    /\ UNCHANGED <<authorization, body, requestUrls, urls, sem, tpc, stage, items, others,
                   calls, completed>>
    /\ UNCHANGED svars
    /\ UNCHANGED rvars

NextBatch ==
    \/ batch_ingest
    \/ \E i \in DOMAIN tpc : process_with_semaphore(i)
    \/ \E i \in DOMAIN tpc : process_single_url_ends(i)
    \/ batch_ingest_returns

SpecBatch == InitBatch /\ [][NextBatch]_vars

SpecBatchMixed == InitBatchMixed /\ [][NextBatch]_vars

\* A mixed batch whose order of completion is followed.
InitOrder == InitRequestOf(MixedRequests, {"valid"}) /\ completed = <<>>

SpecOrder == InitOrder /\ [][NextBatch]_vars

\* The event loop runs a task that can run, and every per-URL pipeline that
\* is in flight ends.
FairBatch == InitBatch /\ [][NextBatch]_vars /\ WF_vars(NextBatch)

\* ------------------------------------------------------------------ batch boundary

\* A request of n entries that are no http URLs, those at the places blanks
\* being white space only.
LongRequest(n, blanks) ==
    [i \in 1..n |-> IF i \in blanks THEN Url("", i, TRUE) ELSE Url("ftp", i, FALSE)]

\* The requests of the boundary specification: lists around the limit of 50,
\* with and without blank entries, the empty list, lists of blank entries
\* only, and two short lists of well-formed URLs.
BoundaryRequests ==
    {LongRequest(q[1], q[2]) :
        q \in {x \in {0, 1, 2, MaxBatch, MaxBatch + 1, MaxBatch + 2} \X {{}, {1}, {1, 2}} :
                  x[2] \subseteq 1..x[1]}}
    \cup {[i \in 1..n |-> Url("https", i, FALSE)] : n \in 1..2}

InitBoundary == InitRequest(BoundaryRequests)

\* asyncio.gather starts the tasks in the order of urls, and the semaphore
\* wakes its waiters in that order: the i-th task enters once every task
\* before it has.
process_in_order(i) ==
    /\ \A j \in 1..(i - 1) : tpc[j] # "pending"
    /\ process_with_semaphore(i)

NextBoundary ==
    \/ batch_ingest
    \/ \E i \in DOMAIN tpc : process_in_order(i)
    \/ \E i \in DOMAIN tpc : process_single_url_ends(i)
    \/ batch_ingest_returns

SpecBoundary == InitBoundary /\ [][NextBoundary]_vars

\* ------------------------------------------------------------------ single ingest

\* The status ingest answers with, given what the fetch (f), the extraction
\* (e) and the database (d) do: the HTTPException of each stage, and 500 for
\* the TypeError of `confidence < 0.5`, which no handler catches.
IngestStatus(f, e, d) ==
    IF f = "raised" THEN 400
    ELSE IF e # "ok" THEN 500
    ELSE IF d = "raises" THEN 500
    ELSE 200

\* IngestResponse(success=True, program_id=program_id, ...)
IngestResponse(id) == [success |-> TRUE, program_id |-> id]

\* A request arrives at /ingest: its Authorization header and its body, a
\* valid body holding one http(s) URL.
InitIngest ==
    /\ InitScraperIdle
    /\ bpc = "ingest request"
    /\ authorization \in {"absent", "wrong", "valid"}
    /\ body \in {"valid", "invalid"}
    /\ requestUrls \in IF body = "valid"
                        THEN {<<Url(s, i, FALSE)>> :
                                 s \in {"http", "https"}, i \in 1..MaxMixedUrls}
                        ELSE {<<>>}
    /\ urls = <<>>
    /\ sem = 0
    /\ tpc = <<>>
    /\ stage = <<>>
    /\ items = <<>>
    /\ response = NoResponse
    /\ httpStatus = 0
    /\ others = NoOthers
    /\ calls = <<>>
    /\ completed = NotObserved

\* ingest up to its await of fetch_page_content: the token, the body.
ingest ==
    /\ bpc = "ingest request"
    /\ LET denied == verify_token(authorization)
       IN IF denied # 0
          THEN /\ bpc' = "rejected"
               /\ httpStatus' = denied
               /\ UNCHANGED <<urls, tpc, stage, calls>>
          ELSE IF body = "invalid"
          THEN /\ bpc' = "rejected"
               /\ httpStatus' = 400
               /\ UNCHANGED <<urls, tpc, stage, calls>>
          ELSE /\ bpc' = "ingesting"
               /\ urls' = requestUrls
               /\ tpc' = <<"fetching">>
               /\ stage' = <<"none">>
               /\ calls' = <<FetchCalled>>
               /\ UNCHANGED httpStatus
    /\ UNCHANGED <<authorization, body, requestUrls, sem, items, response, others,
                   completed>>
    /\ UNCHANGED svars
    /\ UNCHANGED rvars

\* fetch_page_content ends for the URL of ingest, and ingest runs to its end
\* without another await.
ingest_fetch_ends ==
    /\ bpc = "ingesting"
    /\ \E k \in FetchKinds, e \in ExtractOutcomes, d \in DbOutcomes :
          LET f == IF k = "raised" THEN "raised" ELSE "content"
              status == IngestStatus(f, e, d)
          IN /\ (f # "content") => (e = "ok" /\ d = "ok")
             /\ (e # "ok") => (d = "ok")
             /\ httpStatus' = status
             /\ bpc' = IF status = 200 THEN "responded" ELSE "failed"
             /\ response' = IF status = 200 THEN IngestResponse(NewId(1)) ELSE response
             /\ calls' = <<Collaborators(urls[1], f, e, d)>>
             /\ stage' = <<process_single_url(urls[1], 1, f, e, d).stage>>
    /\ tpc' = <<"done">>
    /\ UNCHANGED <<authorization, body, requestUrls, urls, sem, items, others, completed>>
    /\ UNCHANGED svars
    /\ UNCHANGED rvars

\* A request to either endpoint, with a body that validates or not.
InitEndpoints ==
    \/ InitIngest
    \/ InitRequestOf(MixedRequests, {"valid", "invalid"}) /\ completed = NotObserved

NextEndpoints ==
    \/ ingest
    \/ ingest_fetch_ends
    \/ NextBatch

SpecEndpoints == InitEndpoints /\ [][NextEndpoints]_vars

\* ------------------------------------------------------------------ scraper calls

Init == InitScraperIdle /\ InitBatchIdle

Next ==
    \/ FetchCall
    \/ fetch_with_curl_cffi
    \/ fetch_with_httpx
    \/ fetch_with_cloudscraper
    \/ fetch_with_playwright_basic
    \/ fetch_with_playwright_human
    \/ fetch_with_playwright_challenge
    \/ CleanCall

Spec == Init /\ [][Next]_vars

NextNormalizer == CleanCall \/ CleanAgain

\* clean_html_content on every page, and again on what it returned.
SpecNormalizer == Init /\ [][NextNormalizer]_vars

\* The responses of the terminating specification: one of each kind a
\* strategy tells apart (a raised try, no response, a plain, a block and an
\* unread status, content at and over the threshold, with and without a
\* marker).
SampleContents ==
    {c \in Contents :
        /\ c.len \in {MinContentLen, MinContentLen + 1}
        /\ c.textLen = 0 /\ ~c.parseErr
        /\ c.kw \in {"none", "blocked", "just a moment"}
        /\ c.kwEnd \in {0, 30}}

SampleResponses ==
    {Raised} \cup
    {[exc |-> FALSE, status |-> s, body |-> c] :
        s \in {0, 200, 403, 520}, c \in SampleContents}

\* A strategy takes its next try.
StrategyStep ==
    \/ fetch_with_curl_cffi_on(SampleResponses)
    \/ fetch_with_httpx_on(SampleResponses)
    \/ fetch_with_cloudscraper_on(SampleResponses)
    \/ fetch_with_playwright_basic_on(SampleResponses)
    \/ fetch_with_playwright_human_on(SampleResponses)
    \/ fetch_with_playwright_challenge_on(SampleResponses)

NextFair == FetchCall \/ StrategyStep

\* Every strategy invocation terminates: each await of a strategy is bounded
\* by its timeout, so the strategy that is running takes its next try.
FairSpec == Init /\ [][NextFair]_vars /\ WF_vars(StrategyStep)

\* Every list of up to three profile names: whatever random.sample returns
\* is among them.
AnySamples == UNION {[1..n -> Range(CHROME_VERSIONS)] : n \in 0..CurlTries}

FetchCallAnySample == FetchCallWith(AnySamples)

NextProfiles == FetchCallAnySample \/ StrategyStep

\* One call of fetch_page_content with every sample of profiles strategy 1
\* may draw.
SpecProfiles == Init /\ [][NextProfiles]_vars

\* ------------------------------------------------------------------ concurrent ladders

\* Where the ladder l of another URL stands after its running strategy saw
\* response r on a try.
LadderAfter(l, r) ==
    IF Accepts(l.layer, r) THEN [l EXCEPT !.pc = "Succeeded", !.attempt = 0]
    ELSE IF l.attempt + 1 < Tries(l.layer) THEN [l EXCEPT !.attempt = @ + 1]
    ELSE IF l.layer < LastLayer
         THEN [l EXCEPT !.layer = NextLayer(@), !.attempt = 0]
    ELSE [l EXCEPT !.pc = "Exhausted", !.attempt = 0]

\* The pools after a try of strategy k.
PoolsAfterTry(p, k) ==
    IF k = 2 THEN get_random_user_agent(p)
    ELSE IF k \in BrowserLayers THEN NewContextProfile(p)
    ELSE {p}

\* fetch_page_content is called for another URL.
OtherCall(j) ==
    /\ others[j].pc = "Pending"
    /\ others' = [others EXCEPT ![j] = [pc |-> "Attempting", layer |-> 1, attempt |-> 0]]
    /\ \E s \in SampleProfiles(pools) :
          pools' = [pools EXCEPT !.CHROME_VERSIONS = s.population]
    /\ UNCHANGED svars
    /\ UNCHANGED <<profiles, impersonated, tries>>
    /\ UNCHANGED <<bpc, authorization, requestUrls, urls, sem, tpc, stage, items,
                   response, httpStatus, body, calls, completed>>

\* The running strategy of another URL's ladder makes a try.
OtherStep(j) ==
    /\ others[j].pc = "Attempting"
    /\ \E r \in SampleResponses :
          /\ others[j].layer <= 3 => r \in HttpResponses
          /\ others' = [others EXCEPT ![j] = LadderAfter(others[j], r)]
    /\ pools' \in PoolsAfterTry(pools, others[j].layer)
    /\ UNCHANGED svars
    /\ UNCHANGED <<profiles, impersonated, tries>>
    /\ UNCHANGED <<bpc, authorization, requestUrls, urls, sem, tpc, stage, items,
                   response, httpStatus, body, calls, completed>>

NextConcurrent ==
    \/ FetchCall
    \/ StrategyStep
    \/ \E j \in 1..MaxOthers : OtherCall(j)
    \/ \E j \in 1..MaxOthers : OtherStep(j)

\* One call of fetch_page_content beside the calls for MaxOthers other URLs,
\* their awaits interleaved by the event loop in every order.
SpecConcurrent == Init /\ [][NextConcurrent]_vars

\* ------------------------------------------------------------------ claims

SixAbsent == <<"absent", "absent", "absent", "absent", "absent", "absent">>

FixedLadder ==
    <<"curl_cffi", "httpx", "cloudscraper", "playwright_basic",
      "playwright_human", "playwright_challenge">>

\* A step invokes no strategy, or the one next strategy of the ladder.
InvokesNextOnly ==
    \/ trace' = trace
    \/ /\ Len(trace) < 6
       /\ pc' = "Attempting"
       /\ trace' = Append(trace, FixedLadder[Len(trace) + 1])

\* A call that has ended takes no further step.
EndedStays == pc \in {"Succeeded", "Exhausted"} => (vars' = vars)

\* C1: in every call of fetch_page_content the strategies invoked are exactly
\* strategies 1..k of the fixed ladder, in order, for some k <= 6; every step
\* leaves the sequence of invocations alone or invokes the one next strategy,
\* so none is repeated or re-invoked; the call ends in Succeeded, or, only
\* with k = 6, in Exhausted.
C1_LadderOrder ==
    /\ [](/\ Len(trace) <= 6
          /\ trace = SubSeq(FixedLadder, 1, Len(trace))
          /\ pc \in {"Pending", "Attempting", "Succeeded", "Exhausted", "Cleaned"}
          /\ pc \in {"Attempting", "Succeeded", "Exhausted"} => layer = Len(trace)
          /\ pc = "Exhausted" => Len(trace) = 6)
    /\ [][InvokesNextOnly]_vars
    /\ [][EndedStays]_vars

C1_Witness ==
    /\ pc = "Succeeded"
    /\ trace = FixedLadder
    /\ returned = <<"absent", "absent", "absent", "absent", "absent", "content">>

\* C2: when strategy k is the first to return content, fetch_page_content has
\* Succeeded after exactly k invocations, strategies 1..k-1 having returned
\* nothing, and no strategy after k is ever invoked.
C2_FirstContentEnds ==
    /\ Len(returned) <= Len(trace)
    /\ \A k \in DOMAIN returned :
          returned[k] = "content" =>
              /\ pc = "Succeeded"
              /\ Len(trace) = k
              /\ Len(returned) = k
              /\ \A j \in 1..(k - 1) : returned[j] = "absent"
    /\ pc = "Succeeded" => returned[Len(returned)] = "content"

C2_Witness ==
    /\ pc = "Succeeded"
    /\ returned = <<"absent", "absent", "content">>
    /\ trace = <<"curl_cffi", "httpx", "cloudscraper">>

\* C3: fetch_page_content raises exactly when all six strategies returned
\* nothing; each was then invoked once, and the error names the URL and the
\* exhausted ladder.
C3_ExhaustedIffAllAbsent ==
    /\ pc = "Exhausted" =>
          /\ returned = SixAbsent
          /\ trace = FixedLadder
          /\ error = [prefix |-> "Failed to fetch content from", url |-> url,
                      suffix |-> "All 6 layers exhausted"]
    /\ returned = SixAbsent => pc = "Exhausted"
    /\ pc # "Exhausted" => error = NoError

C3_Witness == pc = "Exhausted" /\ Len(trace) = 6 /\ error.url = TargetUrl

\* A block or challenge keyword lies in the first 2000 characters of c.
KeywordMatch(c) ==
    \E ind \in block_indicators \cup challenge_indicators :
        InPrefix(ind, c, CloudPrefix)

\* C4: fetch_page_content reaches Succeeded only with raw content that has no
\* block/challenge keyword in its first 1-2KB, whichever strategy returned it.
C4_SucceededOnlyApproved == pc = "Succeeded" => ~KeywordMatch(content)

\* C5: no ladder succeeds on a response whose status is one of the
\* block-signaling codes 403, 429, 503, 520..524.
C5_NoSuccessOnBlockStatus ==
    pc = "Succeeded" => last.status \notin {403, 429, 503, 520, 521, 522, 523, 524}

\* The latest try saw a status-200 response without any marker.
PlainTry == ~last.exc /\ last.status = 200 /\ last.kw = "none"

\* C6 as stated: content is too short exactly when it has fewer than 500
\* characters, so a plain response of 500 characters or more is approved.
C6_ThresholdInclusive ==
    /\ pc = "Succeeded" => last.len >= 500
    /\ (layer >= 1 /\ PlainTry /\ last.len >= 500) => pc = "Succeeded"

\* C6 as amended: content is too short exactly when it has at most 500
\* characters; a plain response of exactly 500 characters is rejected by every
\* strategy and one of 501 characters or more is approved by every strategy.
C6_ThresholdExclusive ==
    /\ pc = "Succeeded" => (last.len > 500 /\ content.len = last.len)
    /\ (layer >= 1 /\ PlainTry /\ last.len > 500) => pc = "Succeeded"
    /\ (layer >= 1 /\ PlainTry /\ last.len <= 500) => pc # "Succeeded"

C6_Witness ==
    /\ pc = "Exhausted"
    /\ PlainTry
    /\ last.len = 500

\* C7: clean_html_content returns at most 50,000 characters on each of its
\* three paths, for every input, and so does every successful
\* fetch_page_content.
C7_OutputCapped ==
    pc \in {"Cleaned", "Succeeded"} =>
        /\ out.path \in {"text", "raw", "except"}
        /\ out.len <= 50000
        /\ out = clean_html_content(content)

C7_Witness ==
    /\ pc = "Succeeded"
    /\ content.len > 50000
    /\ out.path = "raw"
    /\ out.len = 50000

\* The URLs inside fetch_page_content.
InFlight == {i \in DOMAIN tpc : tpc[i] = "fetching"}

SiblingsUntouched ==
    bpc = "running" =>
        \A i \in DOMAIN tpc :
            (tpc'[i] # tpc[i]) =>
                \A j \in DOMAIN tpc \ {i} :
                    /\ tpc'[j] = tpc[j]
                    /\ items'[j] = items[j]
                    /\ stage'[j] = stage[j]

\* C9: a URL whose ladder is exhausted, or whose processing raises at any
\* stage, gets a result with success = false; the result of every other URL
\* is decided by its own pipeline alone and is not touched by a sibling's
\* step; while URLs are unfinished some task can run; and the batch call
\* never fails.
C9_FailureIsolated ==
    /\ [](/\ bpc # "failed"
          /\ httpStatus \in {0, 200, 400, 401}
          /\ \A i \in DOMAIN tpc :
                tpc[i] = "done" =>
                    /\ items[i].url = urls[i]
                    /\ stage[i] # "none"
                    /\ items[i].success = (stage[i] = "ok")
                    /\ stage[i] # "ok" =>
                          items[i].error.kind \notin {"none", "unset"}
          /\ (bpc = "running" /\ \E i \in DOMAIN tpc : tpc[i] # "done") =>
                \E i \in DOMAIN tpc :
                    tpc[i] = "fetching" \/ (tpc[i] = "pending" /\ sem > 0)
          /\ bpc = "responded" =>
                /\ \A i \in DOMAIN tpc : tpc[i] = "done"
                /\ response.results = items)
    /\ [][SiblingsUntouched]_vars

C9_Witness ==
    /\ bpc = "responded"
    /\ \E i, j, k \in DOMAIN tpc :
          /\ stage[i] = "exhausted" /\ ~items[i].success
          /\ stage[j] = "unexpected" /\ ~items[j].success
          /\ stage[k] = "ok" /\ items[k].success

ExhaustedUrls == {i \in DOMAIN stage : stage[i] = "exhausted"}

\* C10: when m of the n URLs of a batch have an exhausted ladder and the
\* others succeed at every stage, the summary reports successful = n - m and
\* failed = m, each failed item's error references the exhausted ladder, and
\* the others are successes, in every order of completion.
C10_SummaryCounts ==
    (bpc = "responded" /\ \A i \in DOMAIN stage : stage[i] \in {"exhausted", "ok"}) =>
        /\ response.total = Len(urls)
        /\ response.successful = Len(urls) - Cardinality(ExhaustedUrls)
        /\ response.failed = Cardinality(ExhaustedUrls)
        /\ Len(response.results) = Len(urls)
        /\ \A i \in DOMAIN urls :
              /\ response.results[i].url = urls[i]
              /\ stage[i] = "exhausted" =>
                    /\ ~response.results[i].success
                    /\ response.results[i].error.kind = "Scraping failed"
                    /\ response.results[i].error.cause.suffix = "All 6 layers exhausted"
                    /\ response.results[i].error.cause.url = urls[i]
              /\ stage[i] = "ok" =>
                    /\ response.results[i].success
                    /\ response.results[i].error.kind = "none"
                    /\ response.results[i].program_id # 0

C10_Witness ==
    /\ bpc = "responded"
    /\ Len(urls) = 3
    /\ stage = <<"ok", "exhausted", "ok">>
    /\ response.successful = 2
    /\ response.failed = 1

\* The strings the error of fetch_page_content is made of.
ErrorParts == {error.prefix, error.url, error.suffix}

\* Why the latest try failed, as a diagnostic would name it.
LastFailure ==
    IF last.exc THEN "raised"
    ELSE IF last.kw # "none" THEN last.kw
    ELSE IF last.len <= 500 THEN "too short"
    ELSE "status"

\* C11: the exhaustion error of fetch_page_content names the layer that
\* failed last and why it failed, and carries the trace of the six strategies
\* attempted.
C11_ErrorCarriesTrace ==
    pc = "Exhausted" =>
        /\ FixedLadder[layer] \in ErrorParts
        /\ LastFailure \in ErrorParts
        /\ \A k \in DOMAIN trace : trace[k] \in ErrorParts

\* A step in which the running strategy makes a try.
TryMade == returned' # returned \/ attempt' # attempt \/ pc' = "Raised"

\* The response of a try is one strategy k takes for a failure: an exception,
\* a block status it reads, content of at most 500 characters, or, for
\* strategy 6, a challenge that did not resolve.
FailureSeen(k, s) ==
    \/ s.exc
    \/ s.len <= 500
    \/ k \in 1..3 /\ s.status \in {403, 429, 503, 520, 521, 522, 523, 524}
    \/ k \in 4..5 /\ s.status \in {403, 429, 503}
    \/ k = 6 /\ s.kw \in {"just a moment", "challenge-running"}

\* A failed try ends in a retry inside the strategy or in the strategy
\* returning nothing, after which the next strategy runs or the ladder is
\* exhausted.
FailureEscalates ==
    (pc = "Attempting" /\ TryMade /\ FailureSeen(layer, last')) =>
        /\ pc' \in {"Attempting", "Exhausted"}
        /\ \/ returned' = returned /\ layer' = layer /\ attempt' = attempt + 1
           \/ /\ returned' = Append(returned, "absent")
              /\ IF layer < 6
                 THEN pc' = "Attempting" /\ layer' = layer + 1
                 ELSE pc' = "Exhausted"

NonBlankEntries == {i \in DOMAIN requestUrls : requestUrls[i].scheme # ""}

\* Every URL has a terminal result and the counts of the summary add up.
SummaryComplete ==
    /\ \A i \in DOMAIN tpc : tpc[i] = "done"
    /\ \A k \in DOMAIN response.results :
          /\ response.results[k].error.kind # "unset"
          /\ response.results[k].success = (response.results[k].error.kind = "none")
    /\ response.total = Len(response.results)
    /\ response.successful =
          Cardinality({k \in DOMAIN response.results : response.results[k].success})
    /\ response.successful + response.failed = response.total

\* C13 as stated: the summary is returned once every URL has a terminal
\* result, and its results hold one item per input URL of the request, total
\* being the number of input URLs and successful + failed = total.
C13_OneItemPerInputUrl ==
    bpc = "responded" =>
        /\ SummaryComplete
        /\ Len(response.results) = Len(requestUrls)
        /\ response.total = Len(requestUrls)

\* C13 as amended: the summary is returned once every URL has a terminal
\* result; its results hold one item per entry of request.urls that is not
\* blank, in the order of the request and under the stripped URL, blank
\* entries getting no item; total is the number of non-blank entries and
\* successful + failed = total.
C13_OneItemPerNonBlankUrl ==
    /\ bpc = "responded" =>
          /\ SummaryComplete
          /\ Len(response.results) = Cardinality(NonBlankEntries)
          /\ response.total = Cardinality(NonBlankEntries)
          /\ {response.results[k].url.id : k \in DOMAIN response.results} = NonBlankEntries
          /\ \A k \in DOMAIN response.results :
                /\ response.results[k].url.scheme =
                      requestUrls[response.results[k].url.id].scheme
                /\ ~response.results[k].url.padded
                /\ \A j \in DOMAIN response.results :
                      j < k => response.results[j].url.id < response.results[k].url.id
    /\ bpc # "responded" => response.results = <<>>

C13_Witness ==
    /\ bpc = "responded"
    /\ Len(requestUrls) = 3
    /\ Cardinality(NonBlankEntries) = 2
    /\ response.total = 2
    /\ response.successful = 1
    /\ response.failed = 1

\* The length of the whole normalised content of page c: its visible text
\* when that has 500 characters or more, else its markup.
WholeLen(c) == IF c.parseErr \/ c.textLen < 500 THEN c.len ELSE c.textLen

\* A call ends in a success that holds content and no error, or in the
\* exhaustion failure that holds no content; before its end it holds neither.
BinaryOutcome ==
    /\ pc \in {"Pending", "Attempting", "Succeeded", "Exhausted", "Cleaned"}
    /\ pc = "Succeeded" =>
          /\ error = NoError
          /\ ~content.isNone
          /\ content.len = last.len
          /\ out.len > 0
    /\ pc = "Exhausted" => (out = NoOutput /\ error # NoError)
    /\ pc \in {"Pending", "Attempting"} => (out = NoOutput /\ error = NoError)

\* C14 as stated: a call ends in a full success or in the exhaustion failure,
\* and a success never holds partial or truncated content.
C14_NeverTruncated ==
    /\ BinaryOutcome
    /\ pc = "Succeeded" => out.len = WholeLen(content)

\* C14 as amended: a call ends in a success or in the exhaustion failure; a
\* success holds the whole normalised content of the response a strategy
\* approved when that has at most 50,000 characters, and its first 50,000
\* characters, without notice, when it is longer.
C14_WholeOrCapped ==
    /\ BinaryOutcome
    /\ pc = "Succeeded" =>
          out.len = IF WholeLen(content) <= 50000 THEN WholeLen(content) ELSE 50000

C14_Witness ==
    /\ pc = "Succeeded"
    /\ content.textLen = 50001
    /\ out.path = "text"
    /\ out.len = 50000

\* Once a call is in a terminal state every variable keeps its value.
TerminalIsFinal == pc \in {"Succeeded", "Exhausted"} => (vars' = vars)

\* C15: when every strategy invocation terminates, a call of
\* fetch_page_content that has started eventually reaches Succeeded or
\* Exhausted, and takes no step after that.
C15_CallTerminates ==
    /\ (pc = "Attempting") ~> (pc \in {"Succeeded", "Exhausted"})
    /\ [][TerminalIsFinal]_vars

C15_Witness ==
    /\ pc = "Succeeded"
    /\ Len(trace) = 5
    /\ last.status = 200

\* A task that ends gives back the slot it took, whatever its result.
SlotReleased ==
    \A i \in DOMAIN tpc :
        (tpc[i] = "fetching" /\ tpc'[i] = "done") => sem' = sem + 1

\* C16: when every per-URL pipeline terminates, a batch that has started
\* eventually returns its response with a result for every URL, also when it
\* holds more than 5 URLs; every slot taken is given back on every path, so
\* while URLs are unfinished some task can run, and all 5 slots are free at
\* the end.
C16_BatchCompletes ==
    /\ (bpc = "running") ~> (bpc = "responded")
    /\ [](bpc = "responded" =>
            /\ sem = 5
            /\ Len(response.results) = Len(urls)
            /\ \A i \in DOMAIN urls :
                  tpc[i] = "done" /\ response.results[i].error.kind # "unset")
    /\ []((bpc = "running" /\ \E i \in DOMAIN tpc : tpc[i] = "pending") =>
            (sem > 0 \/ \E j \in DOMAIN tpc : tpc[j] = "fetching"))
    /\ [][SlotReleased]_vars

C16_Witness ==
    /\ bpc = "responded"
    /\ Len(urls) = 6
    /\ sem = 5
    /\ \E i, j \in DOMAIN stage : stage[i] = "db_raises" /\ stage[j] = "unexpected"

\* The strategies of the call that were started and have not returned.
StrategiesInFlight == Len(trace) - Len(returned)

\* A strategy is started only when every strategy started before it has
\* returned, the latest of them having returned nothing.
StartsAfterAbsent ==
    (trace' # trace) =>
        /\ Len(trace') = Len(trace) + 1
        /\ Len(returned') = Len(trace)
        /\ \A k \in DOMAIN returned' : returned'[k] = "absent"

\* C17: a call of fetch_page_content has at most one strategy in flight,
\* exactly one while it is attempting and none once it has ended, and it
\* starts a strategy only after the one before has returned nothing, whatever
\* the ladders of the other URLs do in between.
C17_OneStrategyInFlight ==
    /\ [](/\ StrategiesInFlight \in {0, 1}
          /\ pc = "Attempting" => (StrategiesInFlight = 1 /\ Len(trace) = layer)
          /\ pc \in {"Pending", "Succeeded", "Exhausted"} => StrategiesInFlight = 0)
    /\ [][StartsAfterAbsent]_vars

C17_Witness ==
    /\ pc = "Attempting"
    /\ layer = 3
    /\ others[1].pc = "Attempting" /\ others[1].layer = 5

\* The step of a call in which clean_html_content is called is the step into
\* Succeeded, after a strategy returned content, and it is the first such
\* call.
NormalizesOnSuccess ==
    (pc = "Attempting" /\ normalized' # normalized) =>
        /\ normalized = 0
        /\ normalized' = 1
        /\ pc' = "Succeeded"
        /\ returned' = Append(returned, "content")

\* C18: a call of fetch_page_content calls clean_html_content at most once,
\* in the step that takes it into Succeeded after a strategy returned
\* content, and never when it ends in Exhausted.
C18_NormalizerOnSuccessOnly ==
    /\ [](/\ normalized \in {0, 1}
          /\ pc = "Attempting" => normalized = 0
          /\ pc = "Exhausted" => (normalized = 0 /\ out.path = "none")
          /\ pc = "Succeeded" =>
                /\ normalized = 1
                /\ returned[Len(returned)] = "content"
                /\ out.path # "none")
    /\ [][NormalizesOnSuccess]_vars

C18_Witness ==
    /\ pc = "Succeeded"
    /\ normalized = 1
    /\ Len(trace) = 4
    /\ out.path = "text"

\* A step of a strategy leaves the browsers of the other strategies alone; a
\* browser strategy that got a response or a page has launched its browser
\* and has torn it down when it returns, and one whose try raised leaves no
\* browser open.
OwnBrowserTornDown ==
    (pc = "Attempting" /\ TryMade) =>
        /\ \A k \in {4, 5, 6} \ {layer} : browser'[k] = browser[k]
        /\ layer \in {4, 5, 6} =>
              /\ browser[layer] = "none"
              /\ ~last'.exc => browser'[layer] = "closed"
              /\ last'.exc => browser'[layer] \in {"none", "closed"}

\* C19: each of the strategies 4, 5 and 6 launches a browser of its own, and
\* that browser is torn down when the strategy returns on every path:
\* success, content too short, block status, and an exception after the
\* launch; no strategy leaves a browser open.
C19_BrowserTornDown ==
    /\ [](\A k \in {4, 5, 6} :
            /\ browser[k] \in {"none", "closed"}
            /\ browser[k] = "closed" => layer >= k)
    /\ [][OwnBrowserTornDown]_vars

C19_Witness ==
    /\ pc = "Exhausted"
    /\ last.exc
    /\ browser[4] = "closed"
    /\ browser[5] = "none"
    /\ browser[6] = "closed"

\* Nothing was started for the request and no result was produced.
NothingStarted ==
    /\ tpc = <<>>
    /\ items = <<>>
    /\ stage = <<>>
    /\ sem = 0
    /\ response.results = <<>>
    /\ response.total = 0

\* A request that was rejected stays rejected.
RejectedIsFinal == bpc = "rejected" => (vars' = vars)

\* C20 as stated: a request whose URL list is empty or holds more than 50
\* entries is rejected with an error before any fetch is started and without
\* any per-URL result.
C20_RejectsByEntryCount ==
    (bpc # "request" /\ (Len(requestUrls) = 0 \/ Len(requestUrls) > 50)) =>
        /\ bpc = "rejected"
        /\ httpStatus \in {400, 401}
        /\ NothingStarted

\* C20 as amended: the entries are counted after the blank ones are dropped.
\* A request that leaves no URL or more than 50 URLs is rejected with an
\* error (400, or 401 without a valid token) before any fetch is started and
\* without any per-URL result, and stays rejected; an authorized request that
\* leaves 1 to 50 URLs is accepted, also when its list has more than 50
\* entries.
C20_RejectsByNonBlankCount ==
    /\ [](bpc # "request" =>
            /\ (Cardinality(NonBlankEntries) = 0 \/ Cardinality(NonBlankEntries) > 50) =>
                  /\ bpc = "rejected"
                  /\ httpStatus = IF authorization = "valid" THEN 400 ELSE 401
                  /\ NothingStarted
            /\ (authorization = "valid" /\ Cardinality(NonBlankEntries) \in 1..50) =>
                  /\ bpc \in {"running", "responded"}
                  /\ Len(tpc) = Cardinality(NonBlankEntries)
            /\ bpc = "rejected" => NothingStarted)
    /\ [][RejectedIsFinal]_vars

C20_Witness ==
    /\ bpc = "rejected"
    /\ httpStatus = 400
    /\ Len(requestUrls) = 52
    /\ Cardinality(NonBlankEntries) = 51
    /\ NothingStarted

\* The second pass is given the string the first pass returned.
SecondPassOnResult ==
    (pc = "Cleaned" /\ pc' = "Recleaned") =>
        /\ content'.len = out.len
        /\ out.path # "text" => content'.len = Min(content.len, 50000)

LaddersApart ==
    /\ others' # others => UNCHANGED svars
    /\ svars' # svars => others' = others

TotalTries == tries[1] + tries[2] + tries[3] + tries[4] + tries[5] + tries[6]

\* The response of a try is one that strategy 1 or 2 returns as content.
AcceptableSeen(k, s) ==
    /\ ~s.exc
    /\ s.status = 200
    /\ s.len > 500
    /\ k = 1 => ~(s.kw = "blocked" /\ s.kwEnd <= 1000)

\* Every try counts for the running strategy; an acceptable try ends the
\* invocation with content, and a retry follows only a try that was not
\* acceptable and invokes no strategy.
StopsAtFirstAcceptable ==
    (pc = "Attempting" /\ TryMade) =>
        /\ tries' = [tries EXCEPT ![layer] = @ + 1]
        /\ (layer \in {1, 2} /\ AcceptableSeen(layer, last')) =>
              /\ returned' = Append(returned, "content")
              /\ pc' = "Succeeded"
        /\ (pc' = "Attempting" /\ layer' = layer) =>
              /\ layer \in {1, 2}
              /\ ~AcceptableSeen(layer, last')
              /\ attempt' = attempt + 1
              /\ trace' = trace

\* C24: an invocation of strategy 1 makes 1 to 3 tries, of strategy 2 1 or 2,
\* of strategies 3-6 exactly 1; it stops at the first acceptable try; a retry
\* never invokes a strategy again; one call makes at most 9 tries.
C24_TriesBounded ==
    /\ [](/\ tries[1] <= 3 /\ tries[2] <= 2
          /\ \A k \in 3..6 : tries[k] <= 1
          /\ \A k \in 1..6 :
                /\ k <= Len(returned) => tries[k] >= 1
                /\ k > Len(trace) => tries[k] = 0
          /\ trace = SubSeq(FixedLadder, 1, Len(trace))
          /\ TotalTries <= 9)
    /\ [][StopsAtFirstAcceptable]_vars

C24_Witness ==
    /\ pc = "Exhausted"
    /\ tries = <<3, 2, 1, 1, 1, 1>>
    /\ TotalTries = 9

\* A challenge marker of strategy 6 occurs in the page summarised by s.
MarkerSeen(s) == s.kw \in {"just a moment", "challenge-running"}

\* C25: strategy 6 takes its additional wait exactly when the first snapshot
\* holds a challenge marker, and it returns the final snapshot as content only
\* when that snapshot has more than 500 characters and no challenge marker
\* anywhere; otherwise it returns absent.
C25_DecidesOnFinalSnapshot ==
    Len(returned) = 6 =>
        /\ waited = (~snapshot.isNone /\ MarkerSeen(snapshot))
        /\ returned[6] \in {"content", "absent"}
        /\ (returned[6] = "content") =
              (~last.exc /\ last.len > 500 /\ ~MarkerSeen(last))
        /\ returned[6] = "content" =>
              /\ pc = "Succeeded"
              /\ content.len = last.len /\ content.kw = last.kw
        /\ returned[6] = "absent" => pc = "Exhausted" /\ content.isNone

C25_Witness ==
    /\ Len(returned) = 6
    /\ MarkerSeen(snapshot) /\ waited
    /\ returned[6] = "content"
    /\ last.len > 500 /\ ~MarkerSeen(last)

\* A block indicator of strategy 3 lies within the first 2000 characters of
\* the page summarised by s ("challenge" is part of "challenge-running").
BlockIndicatorSeen(s) ==
    \/ s.kw \in {"blocked", "captcha"} /\ s.kwEnd <= 2000
    \/ s.kw = "challenge-running" /\ s.kwEnd - 8 <= 2000

\* Strategy 3 has just returned: `last` is the response it saw.
CloudscraperReturned == Len(returned) = 3 /\ tries[4] = 0

\* C26: strategy 3 returns content only when no block indicator occurs in
\* the first 2000 characters of the lower-cased body; when one occurs it
\* returns absent.
C26_CloudscraperIndicators ==
    CloudscraperReturned =>
        /\ returned[3] \in {"content", "absent"}
        /\ returned[3] = "content" =>
              /\ ~BlockIndicatorSeen(last)
              /\ content.len = last.len /\ content.kw = last.kw
              /\ content.kwEnd = last.kwEnd
        /\ BlockIndicatorSeen(last) => returned[3] = "absent" /\ content.isNone

C26_Witness ==
    /\ CloudscraperReturned
    /\ returned[3] = "absent"
    /\ last.status = 200 /\ last.len > 500
    /\ last.kw = "captcha" /\ last.kwEnd = 2000

\* n characters cut to the cap of 50,000.
Capped(n) == IF n > 50000 THEN 50000 ELSE n

\* C27: clean_html_content returns the visible text, cut to the cap, exactly
\* when that text has at least 500 characters; the raw markup, cut to the cap,
\* when the text is shorter; and the raw markup, cut to the cap, without
\* raising, when parsing fails.
C27_CleanBranches ==
    pc \in {"Cleaned", "Succeeded"} =>
        /\ (out.path = "text") = (~content.parseErr /\ content.textLen >= 500)
        /\ out.path = "text" => out.len = Capped(content.textLen)
        /\ (~content.parseErr /\ content.textLen < 500) =>
              out.path = "raw" /\ out.len = Capped(content.len)
        /\ content.parseErr =>
              out.path = "except" /\ out.len = Capped(content.len) /\ error = NoError

C27_Witness ==
    /\ pc = "Cleaned"
    /\ ~content.parseErr /\ content.textLen = 500
    /\ out.path = "text" /\ out.len = 500

\* No entry of the list s occurs twice.
NoRepeat(s) == \A i, j \in DOMAIN s : i # j => s[i] # s[j]

\* The profile names of the pool as scraper.py defines it.
ChromeProfiles ==
    {"chrome110", "chrome116", "chrome119", "chrome120", "chrome123", "chrome124",
     "chrome131"}

\* C28: within one invocation of strategy 1 the tries made so far and the try
\* to come all use different profiles, each a member of CHROME_VERSIONS.
C28_DistinctProfiles ==
    (pc = "Attempting" /\ layer = 1) =>
        /\ Len(impersonated) = attempt
        /\ attempt < Len(profiles)
        /\ LET used == Append(impersonated, profiles[attempt + 1])
           IN  /\ NoRepeat(used)
               /\ \A i \in DOMAIN used :
                     used[i] \in ChromeProfiles /\ used[i] \in Range(pools.CHROME_VERSIONS)

C28_Witness ==
    /\ pc = "Attempting" /\ layer = 1 /\ attempt = 2
    /\ impersonated = <<"chrome131", "chrome110">>
    /\ profiles[3] = "chrome120"

\* The value the latest strategy returned passes `if content:`.
PassesIfContent == ~content.isNone /\ content.len > 0

\* C29: whatever a strategy returns is absent or a string of more than 500
\* characters, so `if content:` holds exactly when the strategy returned
\* content.
C29_AbsentOrLong ==
    (pc \in {"Attempting", "Succeeded", "Exhausted"} /\ Len(returned) > 0) =>
        /\ content.isNone \/ content.len > 500
        /\ PassesIfContent = ~content.isNone
        /\ PassesIfContent = (returned[Len(returned)] = "content")
        /\ PassesIfContent = (pc = "Succeeded")

C29_Witness ==
    /\ pc = "Succeeded"
    /\ Len(returned) = 4
    /\ content.len = 501

\* The error of the branch `not content or len(content) < 100`.
TooShortError == "Failed to fetch page content or page too short"

\* C30: every string fetch_page_content returns has 500 to 50,000
\* characters, so no URL of a batch ends in the branch that reports content
\* that is empty or shorter than 100 characters.
C30_ShortBranchUnreachable ==
    /\ \A o \in FetchOutputs : o.len >= 500 /\ o.len <= 50000
    /\ "short" \notin FetchKinds
    /\ \A i \in DOMAIN stage :
          /\ stage[i] # "short"
          /\ items[i].error.kind # TooShortError

C30_Witness ==
    /\ \E o \in FetchOutputs : o.len = 500
    /\ \E o \in FetchOutputs : o.len = 50000
    /\ \E i \in DOMAIN stage :
          /\ tpc[i] = "done"
          /\ stage[i] \in {"ok", "extract_raises"}

\* The pipeline of URL i ended because its fetch failed.
FetchFailed(i) == tpc[i] = "done" /\ stage[i] = "exhausted"

\* C31: for a URL whose fetch_page_content failed no extraction call and no
\* database write is made, in ingest and in process_single_url alike; ingest
\* answers 400 and process_single_url returns a failure result; extraction and
\* storage run only after a fetch that returned content.
C31_CollaboratorsAfterFetchOnly ==
    \A i \in DOMAIN calls :
        /\ FetchFailed(i) =>
              /\ ~calls[i].extract
              /\ calls[i].storage = "none"
              /\ bpc = "failed" => httpStatus = 400
              /\ bpc \in {"running", "responded"} =>
                    /\ ~items[i].success
                    /\ items[i].error.kind = "Scraping failed"
        /\ (calls[i].extract \/ calls[i].storage # "none") =>
              /\ calls[i].fetch
              /\ tpc[i] = "done"
              /\ stage[i] \notin {"none", "invalid", "exhausted", "short"}

C31_Witness ==
    /\ bpc = "failed" /\ httpStatus = 400
    /\ FetchFailed(1)
    /\ calls = <<FetchCalled>>

\* The messages a failure result of process_single_url starts with.
FailureMessages ==
    {"Invalid URL format", "Failed to fetch page content or page too short",
     "Scraping failed", "AI extraction failed", "Database error", "Unexpected error"}

\* C32: every BatchItemResult of process_single_url is consistent: a success
\* has a program_id and no error, a failure has an error message and no
\* program_id, and a success is returned only after the fetch, the extraction
\* and every storage write of its URL succeeded.
C32_ItemConsistent ==
    \A i \in DOMAIN items :
        tpc[i] = "done" =>
            /\ items[i].url = urls[i]
            /\ items[i].success =>
                  /\ items[i].program_id # 0
                  /\ items[i].error.kind = "none"
                  /\ calls[i] = [fetch |-> TRUE, extract |-> TRUE, storage |-> "done"]
                  /\ stage[i] = "ok"
            /\ ~items[i].success =>
                  /\ items[i].program_id = 0
                  /\ items[i].error.kind \in FailureMessages
                  /\ calls[i].storage # "done"

C32_Witness ==
    /\ Len(items) = 3
    /\ \A i \in DOMAIN tpc : tpc[i] = "done"
    /\ items[1].success /\ items[1].program_id # 0
    /\ ~items[2].success /\ items[2].error.kind = "Database error"
    /\ ~items[3].success /\ items[3].error.kind = "Invalid URL format"

\* The place in request.urls of the k-th entry that is not blank.
KthNonBlank(k) ==
    CHOOSE j \in NonBlankEntries : Cardinality({m \in NonBlankEntries : m <= j}) = k

\* C33: the results of batch_ingest are in the order of the processed input
\* URLs: results[k].url is the k-th non-blank entry of request.urls, stripped,
\* and holds the result of that URL's task, in whatever order the tasks
\* completed.
C33_ResultsInInputOrder ==
    bpc = "responded" =>
        /\ Len(response.results) = Cardinality(NonBlankEntries)
        /\ Len(completed) = Cardinality(NonBlankEntries)
        /\ \A k \in DOMAIN response.results :
              /\ response.results[k].url.id = requestUrls[KthNonBlank(k)].id
              /\ response.results[k].url.scheme = requestUrls[KthNonBlank(k)].scheme
              /\ ~response.results[k].url.padded
              /\ response.results[k] = items[k]

C33_Witness ==
    /\ bpc = "responded"
    /\ completed = <<3, 1, 2>>
    /\ \A k \in 1..3 : response.results[k].url.id = k
    /\ requestUrls[2].padded

\* The entries of urls that do not start with http:// or https://.
WrongFormat == {i \in DOMAIN urls : urls[i].scheme \notin {"http", "https"}}

\* The task of a URL of a wrong format ends in the step that starts it, and
\* that step changes nothing of any other URL nor the semaphore.
InvalidEndsAlone ==
    \A i \in WrongFormat :
        (tpc[i] = "pending" /\ tpc'[i] # "pending") =>
            /\ tpc'[i] = "done"
            /\ sem' = sem
            /\ \A j \in DOMAIN urls \ {i} :
                  /\ tpc'[j] = tpc[j] /\ stage'[j] = stage[j]
                  /\ items'[j] = items[j] /\ calls'[j] = calls[j]

\* C34: in a batch a URL that does not start with http:// or https:// gets
\* the failure result 'Invalid URL format' with no fetch, no extraction and no
\* storage call, and the other URLs are processed as without it.
C34_InvalidUrlFormat ==
    /\ [](\A i \in WrongFormat :
            /\ i \in DOMAIN tpc => tpc[i] \in {"pending", "done"}
            /\ (i \in DOMAIN tpc /\ tpc[i] = "done") =>
                  /\ ~items[i].success
                  /\ items[i].error.kind = "Invalid URL format"
                  /\ items[i].url = urls[i]
                  /\ calls[i] = [fetch |-> FALSE, extract |-> FALSE, storage |-> "none"])
    /\ [][InvalidEndsAlone]_vars

C34_Witness ==
    /\ bpc = "responded"
    /\ Len(urls) = 3
    /\ WrongFormat = {2}
    /\ items[2].error.kind = "Invalid URL format"
    /\ items[1].success /\ items[3].success

\* Strategy k has just returned: `last` is the response of its last try.
JustReturned(k) == Len(returned) = k /\ (k < 6 => tries[k + 1] = 0)

\* C35: strategies 1, 2 and 3 return content only for a response of status
\* 200: after any other status, block code or not, and whatever the body, the
\* try yields no content.
C35_ContentOnlyOn200 ==
    \A k \in 1..3 :
        JustReturned(k) =>
            /\ returned[k] = "content" => (~last.exc /\ last.status = 200)
            /\ last.status # 200 => (returned[k] = "absent" /\ content.isNone)

C35_Witness ==
    /\ JustReturned(2)
    /\ returned[2] = "absent"
    /\ last.status = 404 /\ last.len > 500 /\ last.kw = "none"

\* The request has been answered or is being processed.
RequestTaken == bpc \notin {"request", "ingest request"}

\* C36: without the Authorization header 'Bearer <AGENT_SECRET>' ingest and
\* batch_ingest start no fetch, extraction or storage, and the request ends
\* with 401 before any strategy is invoked.
C36_NothingWithoutToken ==
    authorization # "valid" =>
        /\ calls = <<>> /\ tpc = <<>> /\ urls = <<>>
        /\ pc = "Pending" /\ trace = <<>>
        /\ RequestTaken => (bpc = "rejected" /\ httpStatus = 401)

====
